---- MODULE Spec2Model ----
(***************************************************************************)
(* Ring-LWE key exchange with reconciliation (src/src/main.rs).            *)
(*                                                                         *)
(* A Poly<u8> is a function 0..N-1 -> 0..255 (the u8 array, index 0 is the *)
(* coefficient of x^0); a Poly<bool> is a function 0..N-1 -> BOOLEAN.      *)
(* The array length of the source is 128; the model is generic in N and is *)
(* checked at a small length, so that the loops of the source are          *)
(* translated step by step and every index case (first cell, last cell,    *)
(* the 2N-1 cell product buffer and its split) is exercised.               *)
(*                                                                         *)
(* Three specifications are defined:                                       *)
(*   Spec     - main(): one run of the two-party exchange                  *)
(*   SpecOps  - the ring operations and the two reconciliation functions   *)
(*              applied in sequence to ring elements with coefficients in  *)
(*              [0, Q)                                                     *)
(*   SpecRaw  - the same operations applied to arbitrary u8 arrays         *)
(***************************************************************************)
EXTENDS Integers, Sequences

VARIABLES
    pc,        \* position of main()
    rng,       \* main: the generator, as the values its coming gen_range calls return
    shr_a,     \* main: shared parameter A
    a_sep,     \* main: Alice's Sep {s, e, p}
    b_sep,     \* main: Bob's Sep {s, e, p}
    w,         \* main: compute_w(b_sep.p)
    w2,        \* main: compute_w(a_sep.p)
    a_sks,     \* main: compute_sks(&w, &a_sep.s, &b_sep.p)
    b_sks,     \* main: compute_sks(&w, &b_sep.s, &a_sep.p)
    dif,       \* main: &a_sks ^ &b_sks
    ed,        \* main: (a_sep.e + b_sep.e) * 2
    mismatch,  \* main: the "sks mismatch" branch was taken
    raw,       \* operations: callers may pass arbitrary u8 arrays
    op,        \* operations: name of the last operation applied
    self0,     \* operations: the receiver before the last operation
    other,     \* operations: the Poly<u8> argument of the last operation
    scalar,    \* operations: the u8 argument of the last mul_assign
    sig,       \* operations: the Poly<bool> argument of the last compute_sks
    self,      \* operations: the receiver / result after the last operation
    bits,      \* operations: the Poly<bool> result of compute_w / compute_sks
    aborted,   \* operations: the last operation panicked
    prev,      \* operations: <<op, self0, other>> of the operation before
    steps      \* operations: number of operations applied

mainVars == <<pc, rng, shr_a, a_sep, b_sep, w, w2, a_sks, b_sks, dif, ed, mismatch>>
opVars == <<raw, op, self0, other, scalar, sig, self, bits, aborted, prev, steps>>
vars == <<pc, rng, shr_a, a_sep, b_sep, w, w2, a_sks, b_sks, dif, ed, mismatch,
          raw, op, self0, other, scalar, sig, self, bits, aborted, prev, steps>>

(***************************************************************************)
(* Program constants and model bounds                                      *)
(***************************************************************************)
Q == 251

N == 3

MaxSteps == 2

RandomCount == 12

NoiseCount == 6

U8 == 256

Idx == 0..(N - 1)

(***************************************************************************)
(* Coefficient arithmetic                                                  *)
(***************************************************************************)
\* variant: the sum is only truncated to u8, not reduced mod Q
modulo_add64_noreduce(a, b) == (a + b) % U8

\* u32 addition cannot overflow here: a, b <= 255 * 255 + 255
modulo_add64(a, b) == ((a + b) % Q) % U8

modulo_add(a, b) == modulo_add64(a, b)

\* (v as i32) as u32, reduced mod Q.  A negative v wraps to 2^32 + v; to stay
\* within 32 bit integers, 2^32 mod Q is taken as (2^16 mod Q)^2 mod Q.
WrapU32ModQ(v) ==
    IF v >= 0 THEN v % Q
    ELSE ((((65536 % Q) * (65536 % Q)) % Q) + v) % Q

PolyDefault == [i \in Idx |-> 0]

BoolDefault == [i \in Idx |-> FALSE]

InRange(p) == \A i \in Idx : p[i] >= 0 /\ p[i] < Q

(***************************************************************************)
(* impl AddAssign / SubAssign / MulAssign<u8> for Poly<u8>                 *)
(***************************************************************************)
add_assign(a, b) == [i \in Idx |-> modulo_add(a[i], b[i])]

\* variant: the difference is taken without adding Q first
sub_assign_nobias(a, b) == [i \in Idx |-> WrapU32ModQ(a[i] - b[i]) % U8]

sub_assign(a, b) == [i \in Idx |-> WrapU32ModQ(Q + a[i] - b[i]) % U8]

mul_assign(a, o) == [i \in Idx |-> modulo_add64(0, a[i] * o)]

(***************************************************************************)
(* impl Mul for &Poly<u8>                                                  *)
(***************************************************************************)
\* variant: the inner loop stops one coefficient short of the end of other
RECURSIVE MulInner_short(_, _, _, _, _)
MulInner_short(tmp, i_, b, n, m) ==
    IF m >= N - 1 THEN tmp
    ELSE MulInner_short([tmp EXCEPT ![n + m] = modulo_add64(tmp[n + m], i_ * b[m])],
                        i_, b, n, m + 1)

\* inner loop: for (m, j) in other.0 ... tmp[n + m] += i_ * j
RECURSIVE MulInner(_, _, _, _, _)
MulInner(tmp, i_, b, n, m) ==
    IF m >= N THEN tmp
    ELSE MulInner([tmp EXCEPT ![n + m] = modulo_add64(tmp[n + m], i_ * b[m])],
                  i_, b, n, m + 1)

\* variant: the outer loop stops one coefficient short of the end of self
RECURSIVE MulOuter_short(_, _, _, _)
MulOuter_short(tmp, a, b, n) ==
    IF n >= N - 1 THEN tmp
    ELSE MulOuter_short(MulInner(tmp, a[n], b, n, 0), a, b, n + 1)

\* outer loop: for (n, i) in self.0 ...
RECURSIVE MulOuter(_, _, _, _)
MulOuter(tmp, a, b, n) ==
    IF n >= N THEN tmp
    ELSE MulOuter(MulInner(tmp, a[n], b, n, 0), a, b, n + 1)

\* the product buffer: [0u8; 255] in the source, 2N-1 cells
MulTmp(a, b) == MulOuter([k \in 0..(2 * N - 2) |-> 0], a, b, 0)

\* for (n, &i) in a.iter().enumerate() { ret[1 + n] = modulo_add(Q - i, ret[1 + n]) }
RECURSIVE MulFold(_, _, _, _)
MulFold(ret, lo, len, n) ==
    IF n >= len THEN ret
    ELSE MulFold([ret EXCEPT ![1 + n] = modulo_add(Q - lo[n], ret[1 + n])],
                 lo, len, n + 1)

Mul(a, b) ==
    LET tmp == MulTmp(a, b)
        rl == N
        \* tmp.split_at(rl - 1)
        lo == [n \in 0..(rl - 2) |-> tmp[n]]
        hi == [k \in 0..((2 * N - 2) - (rl - 1)) |-> tmp[(rl - 1) + k]]
    IN  \* ret.0.copy_from_slice(hi), then the fold over lo
        MulFold(hi, lo, rl - 1, 0)

(***************************************************************************)
(* impl BitXor for &Poly<bool>                                             *)
(***************************************************************************)
bitxor(a, b) == [i \in Idx |-> a[i] # b[i]]

(***************************************************************************)
(* The generator.  rand::thread_rng() is seeded once; from then on every   *)
(* rng.gen_range call returns a value fixed by the generator's state and   *)
(* advances it.  The state is kept as the sequence of the values the       *)
(* coming calls return, first call first.                                  *)
(***************************************************************************)
\* the value returned by the next rng.gen_range call
gen_range(r) == Head(r)

\* the generator after the N calls that fill one array
Drawn(r) == SubSeq(r, N + 1, Len(r))

\* Poly::random: cell i receives the value of the i-th gen_range(0..Q) call
Poly_random(r) == [i \in Idx |-> gen_range(SubSeq(r, i + 1, Len(r)))]

gen_noise_bound == Q \div 16

\* gen_noise: cell i receives the value of the i-th gen_range(0..Q / 16) call
gen_noise(r) == [i \in Idx |-> gen_range(SubSeq(r, i + 1, Len(r)))]

(***************************************************************************)
(* gen_sep: s is drawn first, then e                                       *)
(***************************************************************************)
\* variant: the noise is doubled in place and returned doubled
gen_sep_doubled(a, r) ==
    LET s == Poly_random(r)
        e == gen_noise(Drawn(r))
        e2 == mul_assign(e, 2)
        p0 == Mul(a, s)
        p == add_assign(p0, e2)
    IN [s |-> s, e |-> e2, p |-> p]

gen_sep(a, r) ==
    LET s == Poly_random(r)
        e == gen_noise(Drawn(r))
        e2 == mul_assign(e, 2)
        p0 == Mul(a, s)
        p == add_assign(p0, e2)
    IN [s |-> s, e |-> e, p |-> p]

(***************************************************************************)
(* compute_w                                                               *)
(***************************************************************************)
compute_w_q4 == Q \div 4

compute_w_3q4 == ((3 * Q) \div 4) % U8

\* assert!(*j < Q) fails for some coefficient
compute_w_panics(p) == \E i \in Idx : ~(p[i] < Q)

\* variant: the lower bound of the central region is exclusive
compute_w_strict(p) ==
    [i \in Idx |-> ~(compute_w_q4 < p[i] /\ p[i] < compute_w_3q4)]

compute_w(p) ==
    [i \in Idx |-> ~(compute_w_q4 <= p[i] /\ p[i] < compute_w_3q4)]

(***************************************************************************)
(* compute_sks                                                             *)
(***************************************************************************)
q18 == Q \div 8

q38 == ((3 * Q) \div 8) % U8

q58 == ((5 * Q) \div 8) % U8

q78 == ((7 * Q) \div 8) % U8

\* variant: the two bands are chosen the other way round
compute_sks_swapped(wv, s, p) ==
    LET tmp == Mul(s, p)
    IN [i \in Idx |->
          IF wv[i] THEN ~(q38 <= tmp[i] /\ tmp[i] < q58)
          ELSE ~(q18 <= tmp[i] /\ tmp[i] < q78)]

compute_sks(wv, s, p) ==
    LET tmp == Mul(s, p)
    IN [i \in Idx |->
          IF ~wv[i] THEN ~(q38 <= tmp[i] /\ tmp[i] < q58)
          ELSE ~(q18 <= tmp[i] /\ tmp[i] < q78)]

(***************************************************************************)
(* Inputs.  A run of main() makes 5N gen_range calls: N of range 0..Q for  *)
(* A, then for Alice and again for Bob N of range 0..Q for s and N of      *)
(* range 0..Q / 16 for e.  ThreadRng is the set of all generator states    *)
(* main() can start with.  RandomOutcome and NoiseOutcome enumerate all    *)
(* Q^N arrays over 0..Q-1 and all (Q / 16)^N arrays over 0..Q/16-1; the    *)
(* runs explore the generator states made of the first RandomCount and     *)
(* NoiseCount of them.  The operations are applied to the elements listed  *)
(* further below.                                                          *)
(***************************************************************************)
Mono(c, k) == [i \in Idx |-> IF i = k THEN c ELSE 0]

Const(c) == [i \in Idx |-> c]

Pair(c0, c1) == [i \in Idx |-> IF i = 0 THEN c0 ELSE IF i = 1 THEN c1 ELSE 0]

Ramp(c0, c1) == [i \in Idx |-> (c0 + c1 * i) % Q]

\* the values next to the thresholds Q/8, Q/4, 3Q/8, 5Q/8, 3Q/4, 7Q/8
EdgeVals == <<0, 30, 31, 61, 62, 93, 94, 155, 156, 187, 188, 218, 219, 250>>

Edge(j) == [i \in Idx |-> EdgeVals[((i + j) % Len(EdgeVals)) + 1]]

\* the element e with Mul(e, p) = p for every p
MulOne == Mono(1, N - 1)

\* the values of rng.gen_range(0..hi)
Range(hi) == 0..(hi - 1)

\* the calls of one run of main(), in order, that draw noise
NoiseCalls == ((2 * N + 1)..(3 * N)) \cup ((4 * N + 1)..(5 * N))

\* every generator state main() can start with
ThreadRng ==
    {r \in [1..(5 * N) -> Range(Q)] :
        \A c \in NoiseCalls : r[c] \in Range(gen_noise_bound)}

\* digit j of k in base b
Digit(k, b, j) == (k \div (b ^ j)) % b

\* array number k of the Q^N arrays over 0..Q-1; number 0 is all zero
RandomOutcome(k) ==
    LET d == Digit(k, Q, 0)
    IN [i \in Idx |->
          IF i = 0 THEN (d * d * d) % Q
          ELSE (d * (37 + 101 * i + 13 * d) + Digit(k, Q, i)) % Q]

\* array number k of the (Q / 16)^N arrays over 0..Q/16-1; number 0 is all zero
NoiseOutcome(k) ==
    LET d == Digit(k, gen_noise_bound, 0)
    IN [i \in Idx |->
          IF i = 0 THEN (7 * d) % gen_noise_bound
          ELSE (d * (2 + 3 * i + d) + Digit(k, gen_noise_bound, i)) % gen_noise_bound]

\* the values of the calls that fill array p
Calls(p) == [c \in 1..N |-> p[c - 1]]

\* the generator states the runs of main() start with
Entropy ==
    {Calls(RandomOutcome(a)) \o Calls(RandomOutcome(s1)) \o Calls(NoiseOutcome(e1))
        \o Calls(RandomOutcome(s2)) \o Calls(NoiseOutcome(e2)) :
        a \in 0..(RandomCount - 1),
        s1 \in 0..(RandomCount - 1), e1 \in 0..(NoiseCount - 1),
        s2 \in 0..(RandomCount - 1), e2 \in 0..(NoiseCount - 1)}

\* every explored generator state is one main() can start with
EntropyIsThreadRng == \A r \in Entropy : r \in ThreadRng

ValidPolys ==
    {PolyDefault, Ramp(7, 100), Pair(Q \div 4, (3 * Q) \div 4)}
        \cup {Mono(c, k) : c \in {1, Q - 1}, k \in Idx}
        \cup {Edge(j) : j \in 0..(Len(EdgeVals) - 1)}

RawPolys == ValidPolys \cup {Const(255), Mono(Q, 0), Mono(255, N - 1)}

ValidOperands ==
    {MulOne, Mono(Q - 1, 0), Const(Q - 1), Ramp(7, 100), Ramp(200, 37), Edge(5)}

RawOperands == ValidOperands \cup {Const(255), Mono(252, N - 1)}

Scalars == {0, 2, 255}

Signals ==
    {[i \in Idx |-> i % 2 = 0], [i \in Idx |-> i % 2 = 1],
     [i \in Idx |-> TRUE], [i \in Idx |-> FALSE]}

Receivers == IF raw THEN RawPolys ELSE ValidPolys

Operands == IF raw THEN RawOperands ELSE ValidOperands

SepDefault == [s |-> PolyDefault, e |-> PolyDefault, p |-> PolyDefault]

(***************************************************************************)
(* main()                                                                  *)
(***************************************************************************)
MainInit ==
    /\ pc = "start"
    /\ shr_a = PolyDefault
    /\ a_sep = SepDefault
    /\ b_sep = SepDefault
    /\ w = BoolDefault
    /\ w2 = BoolDefault
    /\ a_sks = BoolDefault
    /\ b_sks = BoolDefault
    /\ dif = BoolDefault
    /\ ed = PolyDefault
    /\ mismatch = FALSE

OpsIdle ==
    /\ op = "init"
    /\ self0 = PolyDefault
    /\ other = PolyDefault
    /\ scalar = 0
    /\ sig = BoolDefault
    /\ self = PolyDefault
    /\ bits = BoolDefault
    /\ aborted = FALSE
    /\ prev = <<"init", PolyDefault, PolyDefault>>
    /\ steps = 0

\* let mut rng = rand::thread_rng()
Init == MainInit /\ rng \in Entropy /\ raw = FALSE /\ OpsIdle

\* let shr_a = Poly::random(&mut rng)
MainGenA ==
    /\ pc = "start"
    /\ shr_a' = Poly_random(rng)
    /\ rng' = Drawn(rng)
    /\ pc' = "alice"
    /\ UNCHANGED <<a_sep, b_sep, w, w2, a_sks, b_sks, dif, ed, mismatch>>
    /\ UNCHANGED opVars

\* let a_sep = gen_sep(&shr_a, &mut rng)
MainAlice ==
    /\ pc = "alice"
    /\ a_sep' = gen_sep(shr_a, rng)
    /\ rng' = Drawn(Drawn(rng))
    /\ pc' = "bob"
    /\ UNCHANGED <<shr_a, b_sep, w, w2, a_sks, b_sks, dif, ed, mismatch>>
    /\ UNCHANGED opVars

\* let b_sep = gen_sep(&shr_a, &mut rng)
MainBob ==
    /\ pc = "bob"
    /\ b_sep' = gen_sep(shr_a, rng)
    /\ rng' = Drawn(Drawn(rng))
    /\ pc' = "signal"
    /\ UNCHANGED <<shr_a, a_sep, w, w2, a_sks, b_sks, dif, ed, mismatch>>
    /\ UNCHANGED opVars

\* let w = compute_w(b_sep.p); let w2 = compute_w(a_sep.p)
MainSignal ==
    /\ pc = "signal"
    /\ IF compute_w_panics(b_sep.p) \/ compute_w_panics(a_sep.p)
       THEN pc' = "panicked" /\ UNCHANGED <<w, w2>>
       ELSE /\ w' = compute_w(b_sep.p)
            /\ w2' = compute_w(a_sep.p)
            /\ pc' = "sks"
    /\ UNCHANGED <<shr_a, a_sep, b_sep, a_sks, b_sks, dif, ed, mismatch>>
    /\ UNCHANGED rng
    /\ UNCHANGED opVars

\* a_sks, b_sks and dif = &a_sks ^ &b_sks
MainSks ==
    /\ pc = "sks"
    /\ a_sks' = compute_sks(w, a_sep.s, b_sep.p)
    /\ b_sks' = compute_sks(w, b_sep.s, a_sep.p)
    /\ dif' = bitxor(a_sks', b_sks')
    /\ pc' = "report"
    /\ UNCHANGED <<shr_a, a_sep, b_sep, w, w2, ed, mismatch>>
    /\ UNCHANGED rng
    /\ UNCHANGED opVars

\* ed = (a_sep.e + b_sep.e) * 2; if a_sks.0 != b_sks.0 { "sks mismatch" }
MainReport ==
    /\ pc = "report"
    /\ ed' = mul_assign(add_assign(a_sep.e, b_sep.e), 2)
    /\ mismatch' = (a_sks # b_sks)
    /\ pc' = "done"
    /\ UNCHANGED <<shr_a, a_sep, b_sep, w, w2, a_sks, b_sks, dif>>
    /\ UNCHANGED rng
    /\ UNCHANGED opVars

Next == MainGenA \/ MainAlice \/ MainBob \/ MainSignal \/ MainSks \/ MainReport

Spec == Init /\ [][Next]_vars

(***************************************************************************)
(* The operations applied in sequence to a receiver                        *)
(***************************************************************************)
OpsStart(pool) ==
    /\ op = "init"
    /\ self \in pool
    /\ self0 = self
    /\ other = PolyDefault
    /\ scalar = 0
    /\ sig = BoolDefault
    /\ bits = BoolDefault
    /\ aborted = FALSE
    /\ prev = <<"init", PolyDefault, PolyDefault>>
    /\ steps = 0

InitOps == MainInit /\ rng = << >> /\ raw = FALSE /\ OpsStart(ValidPolys)

InitRaw == MainInit /\ rng = << >> /\ raw = TRUE /\ OpsStart(RawPolys)

CanStep == ~aborted /\ steps < MaxSteps

Record(name) ==
    /\ op' = name
    /\ self0' = self
    /\ prev' = <<op, self0, other>>
    /\ steps' = steps + 1
    /\ UNCHANGED raw
    /\ UNCHANGED mainVars

\* self += other
OpAddAssign ==
    /\ CanStep
    /\ \E o \in Operands : other' = o /\ self' = add_assign(self, o)
    /\ aborted' = FALSE
    /\ Record("add_assign")
    /\ UNCHANGED <<scalar, sig, bits>>

\* self -= other
OpSubAssign ==
    /\ CanStep
    /\ \E o \in Operands : other' = o /\ self' = sub_assign(self, o)
    /\ aborted' = FALSE
    /\ Record("sub_assign")
    /\ UNCHANGED <<scalar, sig, bits>>

\* self *= scalar
OpMulAssign ==
    /\ CanStep
    /\ \E o \in Scalars : scalar' = o /\ self' = mul_assign(self, o)
    /\ aborted' = FALSE
    /\ Record("mul_assign")
    /\ UNCHANGED <<other, sig, bits>>

\* self = &self * &other
OpMul ==
    /\ CanStep
    /\ \E o \in Operands : other' = o /\ self' = Mul(self, o)
    /\ aborted' = FALSE
    /\ Record("mul")
    /\ UNCHANGED <<scalar, sig, bits>>

\* bits = compute_w(self)
OpComputeW ==
    /\ CanStep
    /\ IF compute_w_panics(self)
       THEN aborted' = TRUE /\ UNCHANGED bits
       ELSE aborted' = FALSE /\ bits' = compute_w(self)
    /\ Record("compute_w")
    /\ UNCHANGED <<self, other, scalar, sig>>

\* bits = compute_sks(&sig, &self, &other)
OpComputeSks ==
    /\ CanStep
    /\ \E wv \in Signals, o \in Operands :
          sig' = wv /\ other' = o /\ bits' = compute_sks(wv, self, o)
    /\ aborted' = FALSE
    /\ Record("compute_sks")
    /\ UNCHANGED <<self, scalar>>

NextOps ==
    \/ OpAddAssign
    \/ OpSubAssign
    \/ OpMulAssign
    \/ OpMul
    \/ OpComputeW
    \/ OpComputeSks

SpecOps == InitOps /\ [][NextOps]_vars

SpecRaw == InitRaw /\ [][NextOps]_vars

(***************************************************************************)
(* Reference definitions used by the properties                            *)
(***************************************************************************)
\* sum of a[j] * b[k - j] over j = 0..n, over the integers
RECURSIVE ConvSum(_, _, _, _)
ConvSum(a, b, k, n) ==
    IF n < 0 THEN 0
    ELSE ConvSum(a, b, k, n - 1)
           + (IF (k - n) \in Idx THEN a[n] * b[k - n] ELSE 0)

\* term k of the 2N-1 term schoolbook convolution; terms past 2N-2 are 0
Conv(a, b, k) == IF k > 2 * N - 2 THEN 0 ELSE ConvSum(a, b, k, N - 1)

\* the convolution reduced modulo x^N + 1 over the integers mod Q
NegacyclicRef(a, b) == [k \in Idx |-> (Conv(a, b, k) - Conv(a, b, k + N)) % Q]

Dist(u, v) == IF u >= v THEN u - v ELSE v - u

\* cyclic distance of two residues mod Q
CycDist(u, v) == IF Dist(u, v) <= Q - Dist(u, v) THEN Dist(u, v) ELSE Q - Dist(u, v)

(***************************************************************************)
(* Properties of the ring operations (SpecOps, SpecRaw)                    *)
(***************************************************************************)
\* C1: the ring multiply equals the schoolbook convolution reduced modulo
\* x^N + 1 over the integers mod Q: coefficient k is (conv[k] - conv[k+N]) mod Q.
C1_MulIsNegacyclicProduct ==
    op = "mul" => self = NegacyclicRef(self0, other)

\* C2: starting from coefficients in [0, Q), every ring element produced by
\* a sequence of add, subtract, scalar-multiply and ring-multiply operations
\* has all its coefficients in [0, Q).
C2_Closure == InRange(self)

C2_Witness ==
    /\ steps = 2
    /\ op \in {"add_assign", "mul"}
    /\ prev[1] \in {"sub_assign", "mul_assign"}
    /\ \E i \in Idx : self0[i] + other[i] >= Q
    /\ \A i \in Idx : self[i] # 0

\* C4: compute_w gives w[i] = FALSE exactly when Q/4 <= p[i] < 3Q/4, that is
\* 62 <= p[i] < 188, and TRUE otherwise.
C4_ComputeW ==
    /\ Q \div 4 = 62
    /\ (3 * Q) \div 4 = 188
    /\ (op = "compute_w" /\ ~aborted) =>
          \A i \in Idx : bits[i] = ~(62 <= self[i] /\ self[i] < 188)

C4_Witness ==
    /\ op = "compute_w"
    /\ ~aborted
    /\ \E i, j, k \in Idx :
          /\ self[i] = 62 /\ bits[i] = FALSE
          /\ self[j] = 188 /\ bits[j] = TRUE
          /\ self[k] = 0 /\ bits[k] = TRUE

\* C5: compute_sks gives, with cross = s * p, the bit NOT(3Q/8 <= cross[i] < 5Q/8)
\* where w[i] is FALSE and NOT(Q/8 <= cross[i] < 7Q/8) where w[i] is TRUE; the
\* thresholds are 31, 94, 156, 219, the lower ones inside the band.
C5_ComputeSks ==
    /\ Q \div 8 = 31 /\ (3 * Q) \div 8 = 94
    /\ (5 * Q) \div 8 = 156 /\ (7 * Q) \div 8 = 219
    /\ op = "compute_sks" =>
          LET cross == Mul(self, other)
          IN \A i \in Idx :
                bits[i] = IF ~sig[i]
                          THEN ~(94 <= cross[i] /\ cross[i] < 156)
                          ELSE ~(31 <= cross[i] /\ cross[i] < 219)

C5_Witness ==
    /\ op = "compute_sks"
    /\ LET cross == Mul(self, other)
       IN /\ \E i, j \in Idx :
                /\ ~sig[i] /\ cross[i] = 94 /\ bits[i] = FALSE
                /\ ~sig[j] /\ cross[j] = 156 /\ bits[j] = TRUE
          /\ \E i \in Idx : sig[i] /\ cross[i] \in 31..218 /\ bits[i] = FALSE

\* C7: the ring multiply is commutative.
C7_MulCommutes == op = "mul" => self = Mul(other, self0)

C7_Witness ==
    /\ op = "mul"
    /\ self0 # other
    /\ \A i \in Idx : self0[i] # 0 /\ other[i] # 0 /\ self[i] # 0
    /\ \E i, j \in Idx : self[i] # self[j]

\* C8: adding b to a and then subtracting b yields a again.
C8_AddThenSub ==
    (op = "sub_assign" /\ prev[1] = "add_assign" /\ prev[3] = other)
        => self = prev[2]

C8_Witness ==
    /\ op = "sub_assign"
    /\ prev[1] = "add_assign"
    /\ prev[3] = other
    /\ \E i \in Idx : prev[2][i] + other[i] >= Q
    /\ \E i \in Idx : prev[2][i] + other[i] < Q /\ other[i] > 0

\* C9: an operation given a ring element with a coefficient outside [0, Q)
\* aborts instead of returning an output.
C9_InvalidInputAborts ==
    (/\ op # "init"
     /\ \/ ~InRange(self0)
        \/ (op \in {"add_assign", "sub_assign", "mul", "compute_sks"}
               /\ ~InRange(other)))
        => aborted

(***************************************************************************)
(* Properties of the exchange (Spec)                                       *)
(***************************************************************************)
AliceDone == pc \notin {"start", "alice"}

BobDone == pc \notin {"start", "alice", "bob"}

SksDone == pc \in {"report", "done"}

\* p = A * s + 2 e (mod Q) for the returned s and e
SepOk(sep) ==
    LET as == Mul(shr_a, sep.s)
    IN /\ \A i \in Idx : sep.p[i] = (as[i] + ((2 * sep.e[i]) % Q)) % Q
       /\ (shr_a = PolyDefault /\ sep.s = PolyDefault /\ sep.e = PolyDefault)
             => sep.p = PolyDefault

\* C6: gen_sep returns {s, e, p} with p = (A ring-multiplied by s) added to
\* (e scaled by 2 mod Q), e being the undoubled noise; all-zero A, s, e give
\* an all-zero p.
C6_GenSep ==
    /\ AliceDone => SepOk(a_sep)
    /\ BobDone => SepOk(b_sep)

C6_Witness ==
    /\ BobDone
    /\ Mul(shr_a, b_sep.s) # PolyDefault
    /\ \E i \in Idx : b_sep.e[i] > 0 /\ b_sep.p[i] # Mul(shr_a, b_sep.s)[i]
    /\ \E i \in Idx : Mul(shr_a, b_sep.s)[i] + 2 * b_sep.e[i] >= Q

\* C3: with the same signal w, at every index where the two parties' cross
\* values differ by a cyclic distance below 3Q/8 - Q/8, both obtain the same bit.
C3_ReconciliationAgreement ==
    SksDone =>
        LET crossA == Mul(a_sep.s, b_sep.p)
            crossB == Mul(b_sep.s, a_sep.p)
        IN \A i \in Idx :
              CycDist(crossA[i], crossB[i]) < ((3 * Q) \div 8) - (Q \div 8)
                  => a_sks[i] = b_sks[i]

\* C10: with all-zero noise on both sides the two parties derive the same
\* bits, for the signal of the run and for every other signal, and the
\* "sks mismatch" branch is not taken.
C10_NoiseFreeAgreement ==
    (SksDone /\ a_sep.e = PolyDefault /\ b_sep.e = PolyDefault) =>
        /\ a_sks = b_sks
        /\ \A wv \in Signals \cup {w, w2} :
              compute_sks(wv, a_sep.s, b_sep.p) = compute_sks(wv, b_sep.s, a_sep.p)
        /\ ~mismatch

C10_Witness ==
    /\ pc = "done"
    /\ a_sep.e = PolyDefault
    /\ b_sep.e = PolyDefault
    /\ a_sep.s # b_sep.s
    /\ a_sep.p # b_sep.p
    /\ \A i \in Idx : shr_a[i] # 0
    /\ a_sep.s # PolyDefault /\ b_sep.s # PolyDefault
    /\ a_sep.p # PolyDefault /\ b_sep.p # PolyDefault
    /\ \E i, j \in Idx : a_sks[i] /\ ~a_sks[j]
    /\ ~mismatch
====
